---- MODULE Spec2Model ----
(***************************************************************************)
(* expo-text-extractor: the JavaScript entry point (src/src/index.ts), the *)
(* Android module (ExpoTextExtractorModule.kt, ML Kit) and the iOS module  *)
(* (Swift, Vision; listed in src/README.md from line 205 on).              *)
(*                                                                         *)
(* Strings are sequences of one-character strings, so that startsWith,     *)
(* replace and lowercase are computed and not assumed.                     *)
(***************************************************************************)
EXTENDS Integers, Sequences, FiniteSets, TLC

VARIABLES platform, calls, recognizers, constructions, lazyLock, langCalls, destroy

vars == <<platform, calls, recognizers, constructions, lazyLock, langCalls, destroy>>

\* ------------------------------------------------------------------ bounds
\* Number of extractTextFromImage calls issued in one behaviour.
MaxCalls == 2

\* Longest result collection the vendor engine returns.
MaxBlocks == 2

\* ------------------------------------------------------------ string values
\* Kotlin null / JavaScript undefined / Swift nil.
NULL == <<"<", "n", "u", "l", "l", ">">>

FILE_SCHEME == <<"f", "i", "l", "e", ":", "/", "/">>

CONTENT_SCHEME == <<"c", "o", "n", "t", "e", "n", "t", ":", "/", "/">>

S_latin == <<"l", "a", "t", "i", "n">>

S_chinese == <<"c", "h", "i", "n", "e", "s", "e">>

S_devanagari == <<"d", "e", "v", "a", "n", "a", "g", "a", "r", "i">>

S_japanese == <<"j", "a", "p", "a", "n", "e", "s", "e">>

S_korean == <<"k", "o", "r", "e", "a", "n">>

S_arabic == <<"a", "r", "a", "b", "i", "c">>

S_empty == << >>

\* The five lazily built recognizers of the Android module.
Scripts == {S_latin, S_chinese, S_devanagari, S_japanese, S_korean}

UpperLetters == <<"A", "B", "C", "D", "E", "F", "G", "H", "I", "J", "K", "L", "M",
                  "N", "O", "P", "Q", "R", "S", "T", "U", "V", "W", "X", "Y", "Z">>

LowerLetters == <<"a", "b", "c", "d", "e", "f", "g", "h", "i", "j", "k", "l", "m",
                  "n", "o", "p", "q", "r", "s", "t", "u", "v", "w", "x", "y", "z">>

LetterIndex(c, letters) == CHOOSE k \in 1..Len(letters) : letters[k] = c

IsUpper(c) == \E k \in 1..Len(UpperLetters) : UpperLetters[k] = c

IsLower(c) == \E k \in 1..Len(LowerLetters) : LowerLetters[k] = c

LowerChar(c) == IF IsUpper(c) THEN LowerLetters[LetterIndex(c, UpperLetters)] ELSE c

UpperChar(c) == IF IsLower(c) THEN UpperLetters[LetterIndex(c, LowerLetters)] ELSE c

\* String.lowercase() of Kotlin, character by character.
Lowercase(s) == [k \in 1..Len(s) |-> LowerChar(s[k])]

\* s.startsWith(p)
StartsWith(s, p) == Len(s) >= Len(p) /\ SubSeq(s, 1, Len(p)) = p

Occurrences(s, p) ==
  {k \in 1..Len(s) : k + Len(p) - 1 <= Len(s) /\ SubSeq(s, k, k + Len(p) - 1) = p}

Min(S) == CHOOSE k \in S : \A j \in S : k <= j

\* s.indexOf(p), 1-based; 0 when p does not occur.
IndexOf(s, p) == IF Occurrences(s, p) = {} THEN 0 ELSE Min(Occurrences(s, p))

\* String.prototype.replace with a string pattern: the FIRST occurrence of p,
\* wherever it is, is replaced by r; s is returned when p does not occur.
ReplaceFirst(s, p, r) ==
  IF IndexOf(s, p) = 0
    THEN s
    ELSE SubSeq(s, 1, IndexOf(s, p) - 1) \o r
           \o SubSeq(s, IndexOf(s, p) + Len(p), Len(s))

\* const processedUri = uri.replace('file://', '')
ProcessedUri(uri) == ReplaceFirst(uri, FILE_SCHEME, << >>)

\* ------------------------------------------------------------- environment
P_a == <<"/", "a", ".", "j", "p", "g">>

P_bad == <<"/", "b", "a", "d">>

P_no == <<"/", "n", "o", ".", "j", "p", "g">>

C_a == CONTENT_SCHEME \o <<"a">>

U_file_a == FILE_SCHEME \o P_a

U_mid == <<"/">> \o FILE_SCHEME \o <<"a", ".", "j", "p", "g">>

\* Paths for which java.io.File.exists() / Data(contentsOf:) succeed.
ExistingFiles == {P_a, P_bad}

\* Existing files that hold a decodable image.
DecodableFiles == {P_a}

\* content:// locators the Android content resolver can open and decode.
ReadableContent == {C_a}

C_no == CONTENT_SCHEME \o <<"n", "o">>

S_Chinese == <<"C", "h", "i", "n", "e", "s", "e">>

\* Locators and script options of the concurrent calls.
UriInputs == {U_file_a, P_no, P_bad}

ScriptInputs == {NULL, S_Chinese}

Uppercase(s) == [k \in 1..Len(s) |-> UpperChar(s[k])]

\* s itself, s in capitals, and s with one letter in capitals.
CaseVariants(s) ==
  {s, Uppercase(s)} \cup {[s EXCEPT ![k] = UpperChar(s[k])] : k \in 1..Len(s)}

\* Locators and script options of a single call, over a wider range.
UriDomain ==
  {U_file_a, P_a, P_no, FILE_SCHEME \o P_no, P_bad, FILE_SCHEME \o P_bad, C_a, C_no, U_mid,
   FILE_SCHEME \o U_file_a, Uppercase(FILE_SCHEME) \o P_a, <<"a", ".", "j", "p", "g">>,
   P_no \o FILE_SCHEME, << >>}

ScriptDomain ==
  {NULL, S_empty, SubSeq(S_chinese, 1, 6), S_korean \o <<"s">>, <<" ">> \o S_korean}
  \cup UNION {CaseVariants(s) : s \in Scripts \cup {S_arabic}}

Texts == {"A", "B"}

Collections(Elems) == UNION {[1..n -> Elems] : n \in 0..MaxBlocks}

\* Text.TextBlock of ML Kit: only its text is read.
TextBlocks == [text : Texts]

\* VNRecognizedTextObservation: topCandidates(1) holds at most one candidate.
Observations == [candidates : {<< >>} \cup {<<[string |-> t]>> : t \in Texts}]

\* --------------------------------------------------------- promise plumbing
Resolve(value) == [kind |-> "resolve", code |-> "", origin |-> "", value |-> value]

Reject(code, origin) == [kind |-> "reject", code |-> code, origin |-> origin, value |-> << >>]

NoVendor == [status |-> "none", results |-> << >>]

\* An optional value: absent, or present with a value.
None == << >>

Some(v) == <<v>>

\* RecognitionOptions with every field but script left out.
NoOptions ==
  [languages |-> None, recognitionLevel |-> None, automaticallyDetectsLanguage |-> None,
   usesLanguageCorrection |-> None, customWords |-> None, minimumTextHeight |-> None]

NewCallWithOptions(uri, script, options) ==
  [uri |-> uri, script |-> script, options |-> options,
   uriString |-> ProcessedUri(uri), pc |-> "start",
   loaded |-> FALSE, selected |-> NULL, sawUnset |-> FALSE, handle |-> 0,
   constructFailed |-> FALSE, request |-> None,
   invoked |-> 0, vendor |-> NoVendor, settled |-> << >>]

NewCall(uri, script) == NewCallWithOptions(uri, script, NoOptions)

Ids == 1..Len(calls)

Upd(i, fields) == [calls EXCEPT ![i] = fields @@ @]

\* ------------------------------------------------------------------ Android
\* The when-expression applied to the script as given, without lowercase().
getRecognizerForScript_CaseSensitive(script) ==
  CASE script = S_chinese -> S_chinese
    [] script = S_devanagari -> S_devanagari
    [] script = S_japanese -> S_japanese
    [] script = S_korean -> S_korean
    [] OTHER -> S_latin

\* getRecognizerForScript: the lazy property the when-expression names.
getRecognizerForScript(script) ==
  LET lowered == IF script = NULL THEN NULL ELSE Lowercase(script)
  IN  CASE lowered = S_chinese -> S_chinese
        [] lowered = S_devanagari -> S_devanagari
        [] lowered = S_japanese -> S_japanese
        [] lowered = S_korean -> S_korean
        [] OTHER -> S_latin

\* val uri = if (startsWith("content://")) Uri.parse else File(..) with the
\* exists() test; then InputImage.fromFilePath(context, uri).
AndroidFileFound(uriString) ==
  StartsWith(uriString, CONTENT_SCHEME) \/ uriString \in ExistingFiles

\* fromFilePath taken not to validate its locator.
AndroidImageReadable_Unchecked(uriString) == TRUE

AndroidImageReadable(uriString) ==
  IF StartsWith(uriString, CONTENT_SCHEME)
    THEN uriString \in ReadableContent
    ELSE uriString \in DecodableFiles

\* visionText.textBlocks.map { it.text }
AndroidRecognizedTexts(textBlocks) == [k \in 1..Len(textBlocks) |-> textBlocks[k].text]

\* onDestroy has not run: no close() call made, super.onDestroy() not reached.
NotDestroyed ==
  [step |-> "idle", closes |-> [s \in Scripts |-> 0], superCalled |-> FALSE, thrown |-> FALSE]

Init ==
  /\ platform \in {"android", "ios"}
  /\ calls = << >>
  /\ recognizers = [s \in Scripts |-> 0]
  /\ constructions = [s \in Scripts |-> 0]
  /\ lazyLock = [s \in Scripts |-> 0]
  /\ langCalls = << >>
  /\ destroy = NotDestroyed

\* index.ts extractTextFromImage: strip, then dispatch to the native module.
extractTextFromImage(uri, script) ==
  /\ Len(calls) < MaxCalls
  /\ calls' = Append(calls, NewCall(uri, script))
  /\ UNCHANGED <<platform, recognizers, constructions, lazyLock, langCalls, destroy>>

\* The same wrapper, the options object carrying the iOS fields too.
extractTextFromImageWithOptions(uri, script, options) ==
  /\ Len(calls) < MaxCalls
  /\ calls' = Append(calls, NewCallWithOptions(uri, script, options))
  /\ UNCHANGED <<platform, recognizers, constructions, lazyLock, langCalls, destroy>>

\* Kotlin lines 88-100: context, locator resolution, InputImage. Every
\* exception lands in the catch block of line 111.
AndroidLoadImage(i) ==
  /\ platform = "android"
  /\ calls[i].pc = "start"
  /\ \E contextAlive \in BOOLEAN :
       calls' =
         IF ~contextAlive
           THEN Upd(i, [pc |-> "done",
                        settled |-> Append(calls[i].settled, Reject("UNKNOWN_ERROR", "context"))])
         ELSE IF ~AndroidFileFound(calls[i].uriString) \/ ~AndroidImageReadable(calls[i].uriString)
           THEN Upd(i, [pc |-> "done",
                        settled |-> Append(calls[i].settled, Reject("UNKNOWN_ERROR", "resource"))])
         ELSE Upd(i, [pc |-> "select", loaded |-> TRUE])
  /\ UNCHANGED <<platform, recognizers, constructions, lazyLock, langCalls, destroy>>

\* Line 101 up to the first, unsynchronized read of the lazy delegate.
AndroidSelect(i) ==
  /\ platform = "android"
  /\ calls[i].pc = "select"
  /\ LET s == getRecognizerForScript(calls[i].script)
     IN  calls' =
           IF recognizers[s] # 0
             THEN Upd(i, [pc |-> "process", selected |-> s, handle |-> recognizers[s]])
             ELSE Upd(i, [pc |-> "lazy_wait", selected |-> s, sawUnset |-> TRUE])
  /\ UNCHANGED <<platform, recognizers, constructions, lazyLock, langCalls, destroy>>

\* by lazy (synchronized): enter the delegate's monitor.
AndroidLazyEnter(i) ==
  /\ platform = "android"
  /\ calls[i].pc = "lazy_wait"
  /\ lazyLock[calls[i].selected] = 0
  /\ lazyLock' = [lazyLock EXCEPT ![calls[i].selected] = i]
  /\ calls' = Upd(i, [pc |-> "lazy_locked"])
  /\ UNCHANGED <<platform, recognizers, constructions, langCalls, destroy>>

\* Single-checked locking: the holder of the monitor does not look again.
LazySecondRead_Skipped(s) == 0

\* What the holder of the monitor finds: the value another call built in
\* the meantime, or 0 when the initializer has to run.
LazySecondRead(s) == recognizers[s]

\* An initializer that builds the recognizers of all five scripts.
AndroidLazyInit_Eager(i) ==
  /\ platform = "android"
  /\ calls[i].pc = "lazy_locked"
  /\ lazyLock' = [lazyLock EXCEPT ![calls[i].selected] = 0]
  /\ constructions' = [t \in Scripts |-> IF recognizers[t] = 0 THEN constructions[t] + 1
                                                                ELSE constructions[t]]
  /\ recognizers' = [t \in Scripts |-> IF recognizers[t] = 0 THEN constructions[t] + 1
                                                              ELSE recognizers[t]]
  /\ calls' = Upd(i, [pc |-> "process", handle |-> recognizers'[calls[i].selected]])
  /\ UNCHANGED <<platform, langCalls, destroy>>

\* by lazy (synchronized): second read inside the monitor; the initializer
\* TextRecognition.getClient(..) runs only when the value is still unset.
\* It returns a handle, throws an Exception (caught at line 111) or throws
\* an Error, which catch (error: Exception) does not catch.
AndroidLazyInit(i) ==
  /\ platform = "android"
  /\ calls[i].pc = "lazy_locked"
  /\ LET s == calls[i].selected
     IN  /\ lazyLock' = [lazyLock EXCEPT ![s] = 0]
         /\ IF LazySecondRead(s) # 0
              THEN /\ calls' = Upd(i, [pc |-> "process", handle |-> recognizers[s]])
                   /\ UNCHANGED <<recognizers, constructions>>
              ELSE \E outcome \in {"handle", "exception", "error"} :
                     IF outcome = "handle"
                       THEN /\ constructions' = [constructions EXCEPT ![s] = @ + 1]
                            /\ recognizers' = [recognizers EXCEPT ![s] = constructions[s] + 1]
                            /\ calls' = Upd(i, [pc |-> "process", handle |-> constructions[s] + 1])
                       ELSE /\ UNCHANGED <<recognizers, constructions>>
                            /\ calls' =
                                 IF outcome = "exception"
                                   THEN Upd(i, [pc |-> "done", constructFailed |-> TRUE,
                                                settled |-> Append(calls[i].settled,
                                                                   Reject("UNKNOWN_ERROR", "vendor"))])
                                   ELSE Upd(i, [pc |-> "uncaught", constructFailed |-> TRUE])
  /\ UNCHANGED <<platform, langCalls, destroy>>

\* Line 103: recognizer.process(inputImage), which throws or returns the
\* Task the two listeners are added to.
AndroidProcess(i) ==
  /\ platform = "android"
  /\ calls[i].pc = "process"
  /\ \E thrown \in BOOLEAN :
       calls' =
         IF thrown
           THEN Upd(i, [pc |-> "done", invoked |-> calls[i].invoked + 1,
                        vendor |-> [status |-> "failure", results |-> << >>],
                        settled |-> Append(calls[i].settled, Reject("UNKNOWN_ERROR", "vendor"))])
           ELSE Upd(i, [pc |-> "awaiting", invoked |-> calls[i].invoked + 1])
  /\ UNCHANGED <<platform, recognizers, constructions, lazyLock, langCalls, destroy>>

\* Lines 104-107: addOnSuccessListener.
AndroidOnSuccess(i) ==
  /\ platform = "android"
  /\ calls[i].pc = "awaiting"
  /\ \E textBlocks \in Collections(TextBlocks) :
       calls' = Upd(i, [pc |-> "done",
                        vendor |-> [status |-> "success", results |-> textBlocks],
                        settled |-> Append(calls[i].settled,
                                           Resolve(AndroidRecognizedTexts(textBlocks)))])
  /\ UNCHANGED <<platform, recognizers, constructions, lazyLock, langCalls, destroy>>

\* A failure listener that rejects every call still waiting for ML Kit.
AndroidOnFailure_RejectsAll(i) ==
  /\ platform = "android"
  /\ calls[i].pc = "awaiting"
  /\ calls' = [k \in Ids |->
                 IF calls[k].pc = "awaiting"
                   THEN [calls[k] EXCEPT !.pc = "done",
                                         !.vendor = [status |-> "failure", results |-> << >>],
                                         !.settled = Append(@, Reject("TEXT_RECOGNITION_ERROR",
                                                                      "vendor"))]
                   ELSE calls[k]]
  /\ UNCHANGED <<platform, recognizers, constructions, lazyLock, langCalls, destroy>>

\* Lines 108-110: addOnFailureListener.
AndroidOnFailure(i) ==
  /\ platform = "android"
  /\ calls[i].pc = "awaiting"
  /\ calls' = Upd(i, [pc |-> "done",
                      vendor |-> [status |-> "failure", results |-> << >>],
                      settled |-> Append(calls[i].settled,
                                         Reject("TEXT_RECOGNITION_ERROR", "vendor"))])
  /\ UNCHANGED <<platform, recognizers, constructions, lazyLock, langCalls, destroy>>

\* ---------------------------------------------------------------- onDestroy
\* The order in which onDestroy names the recognizers, then super.onDestroy().
DestroyOrder == <<S_latin, S_chinese, S_devanagari, S_japanese, S_korean>>

DestroySteps == <<"latin", "chinese", "devanagari", "japanese", "korean", "super", "returned">>

StepAfter(step) ==
  DestroySteps[(CHOOSE k \in 1..Len(DestroySteps) : DestroySteps[k] = step) + 1]

StepScript(step) == DestroyOrder[CHOOSE k \in 1..Len(DestroyOrder) : DestroySteps[k] = step]

\* The Android module is torn down.
onDestroy ==
  /\ platform = "android"
  /\ destroy.step = "idle"
  /\ destroy' = [destroy EXCEPT !.step = "latin"]
  /\ UNCHANGED <<platform, calls, recognizers, constructions, lazyLock, langCalls>>

\* One try { xRecognizer.close() } catch (_: Exception) {} of onDestroy.
\* Reading the property goes through the lazy delegate: an unset value runs
\* the initializer inside the monitor (a handle, an Exception, or an Error
\* that the catch does not stop); close() returns or throws an Exception.
OnDestroyClose ==
  /\ platform = "android"
  /\ destroy.step \in {"latin", "chinese", "devanagari", "japanese", "korean"}
  /\ LET s == StepScript(destroy.step)
         closed == [destroy EXCEPT !.step = StepAfter(destroy.step), !.closes[s] = @ + 1]
     IN  IF recognizers[s] # 0
           THEN /\ destroy' = closed
                /\ UNCHANGED <<recognizers, constructions>>
           ELSE /\ lazyLock[s] = 0
                /\ \E outcome \in {"handle", "exception", "error"} :
                     IF outcome = "handle"
                       THEN /\ constructions' = [constructions EXCEPT ![s] = @ + 1]
                            /\ recognizers' = [recognizers EXCEPT ![s] = constructions[s] + 1]
                            /\ destroy' = closed
                       ELSE /\ UNCHANGED <<recognizers, constructions>>
                            /\ destroy' =
                                 IF outcome = "exception"
                                   THEN [destroy EXCEPT !.step = StepAfter(destroy.step)]
                                   ELSE [destroy EXCEPT !.step = "returned", !.thrown = TRUE]
  /\ UNCHANGED <<platform, calls, lazyLock, langCalls>>

\* super.onDestroy()
OnDestroySuper ==
  /\ platform = "android"
  /\ destroy.step = "super"
  /\ destroy' = [destroy EXCEPT !.step = "returned", !.superCalled = TRUE]
  /\ UNCHANGED <<platform, calls, recognizers, constructions, lazyLock, langCalls>>

\* ---------------------------------------------------------------------- iOS
\* Data(contentsOf: url)
IosDataReadable(uriString) == uriString \in ExistingFiles

\* UIImage(data:)?.cgImage is not nil
IosImageDecodable(uriString) == uriString \in DecodableFiles

L_fast == <<"f", "a", "s", "t">>

L_FAST == <<"F", "A", "S", "T">>

L_Fast == <<"F", "a", "s", "t">>

L_accurate == <<"a", "c", "c", "u", "r", "a", "t", "e">>

L_high == <<"h", "i", "g", "h">>

\* The comparison with "fast" made on the option as given.
IosRecognitionLevel_CaseSensitive(level) ==
  IF level # None /\ level[1] = L_fast THEN "fast" ELSE "accurate"

\* if let level = options?.recognitionLevel?.lowercased() { .. } else { .accurate }
IosRecognitionLevel(level) ==
  IF level # None /\ Lowercase(level[1]) = L_fast THEN "fast" ELSE "accurate"

\* The switch made on the script as given, without lowercased().
languagesForScript_CaseSensitive(script) ==
  CASE script = S_chinese -> <<"zh-Hans", "zh-Hant">>
    [] script = S_japanese -> <<"ja-JP">>
    [] script = S_korean -> <<"ko-KR">>
    [] script = S_devanagari -> <<"hi-IN">>
    [] script = S_latin -> <<"en-US", "fr-FR", "de-DE", "es-ES", "it-IT", "pt-BR">>
    [] OTHER -> << >>

languagesForScript(script) ==
  LET lowered == Lowercase(script)
  IN  CASE lowered = S_chinese -> <<"zh-Hans", "zh-Hant">>
        [] lowered = S_japanese -> <<"ja-JP">>
        [] lowered = S_korean -> <<"ko-KR">>
        [] lowered = S_devanagari -> <<"hi-IN">>
        [] lowered = S_latin -> <<"en-US", "fr-FR", "de-DE", "es-ES", "it-IT", "pt-BR">>
        [] OTHER -> << >>

\* The languages option taken whenever it is present, empty or not.
IosRecognitionLanguages_EmptyTaken(script, languages) ==
  IF languages # None
    THEN Some(languages[1])
    ELSE IF script # NULL THEN Some(languagesForScript(script)) ELSE None

\* The value assigned to request.recognitionLanguages, None when neither
\* branch assigns it.
IosRecognitionLanguages(script, languages) ==
  IF languages # None /\ languages[1] # << >>
    THEN Some(languages[1])
    ELSE IF script # NULL THEN Some(languagesForScript(script)) ELSE None

\* The assignments made to the fresh VNRecognizeTextRequest; a field that no
\* statement assigns is None, the vendor's default.
IosConfigureRequest(script, options, ios16) ==
  [recognitionLevel |-> IosRecognitionLevel(options.recognitionLevel),
   recognitionLanguages |-> IosRecognitionLanguages(script, options.languages),
   automaticallyDetectsLanguage |->
     IF ios16 THEN options.automaticallyDetectsLanguage ELSE None,
   usesLanguageCorrection |->
     IF options.usesLanguageCorrection # None THEN options.usesLanguageCorrection[1] ELSE TRUE,
   customWords |->
     IF options.customWords # None /\ options.customWords[1] # << >>
       THEN options.customWords ELSE None,
   minimumTextHeight |-> options.minimumTextHeight]

\* map with a default in place of compactMap.
IosRecognizedTexts_Mapped(observations) ==
  [k \in 1..Len(observations) |->
     IF observations[k].candidates = << >> THEN "" ELSE observations[k].candidates[1].string]

\* observations.compactMap { $0.topCandidates(1).first?.string }
RECURSIVE IosRecognizedTexts(_)
IosRecognizedTexts(observations) ==
  IF observations = << >>
    THEN << >>
    ELSE (IF Head(observations).candidates = << >>
            THEN << >>
            ELSE <<Head(observations).candidates[1].string>>)
         \o IosRecognizedTexts(Tail(observations))

\* The handler without the return that follows promise.reject.
IosCompletionHandler_NoReturn(status, results) ==
  IF status = "failure"
    THEN <<Reject("TEXT_RECOGNITION_ERROR", "vendor"), Resolve(<< >>)>>
    ELSE IF status = "absent"
      THEN <<Resolve(<< >>)>>
      ELSE <<Resolve(IosRecognizedTexts(results))>>

\* The completion handler of VNRecognizeTextRequest: the promise calls it makes.
IosCompletionHandler(status, results) ==
  IF status = "failure"
    THEN <<Reject("TEXT_RECOGNITION_ERROR", "vendor")>>
    ELSE IF status = "absent"
      THEN <<Resolve(<< >>)>>
      ELSE <<Resolve(IosRecognizedTexts(results))>>

\* What perform([request]) can do with one request: call the handler with
\* results (a collection, or none that casts), call it with an error and
\* throw that error, or throw before the handler is called.
IosVendorOutcomes ==
  {[status |-> "success", results |-> r, handlerCalled |-> TRUE, thrown |-> FALSE] :
     r \in Collections(Observations)}
  \cup {[status |-> "absent", results |-> << >>, handlerCalled |-> TRUE, thrown |-> FALSE],
        [status |-> "failure", results |-> << >>, handlerCalled |-> TRUE, thrown |-> TRUE],
        [status |-> "failure", results |-> << >>, handlerCalled |-> FALSE, thrown |-> TRUE]}

\* The promise calls of one perform: the handler's, then the catch block's.
IosPerformSettles(o) ==
  (IF o.handlerCalled THEN IosCompletionHandler(o.status, o.results) ELSE << >>)
  \o (IF o.thrown THEN <<Reject("VNError", "vendor")>> ELSE << >>)

\* The whole AsyncFunction body: it is synchronous, the handler runs inside
\* perform.
IosExtractTextFromImage(i) ==
  /\ platform = "ios"
  /\ calls[i].pc = "start"
  /\ IF ~IosDataReadable(calls[i].uriString)
       THEN calls' = Upd(i, [pc |-> "done",
                             settled |-> Append(calls[i].settled, Reject("NSCocoaError", "resource"))])
       ELSE IF ~IosImageDecodable(calls[i].uriString)
         THEN calls' = Upd(i, [pc |-> "done",
                               settled |-> Append(calls[i].settled,
                                                  Reject("IMAGE_LOAD_ERROR", "resource"))])
         ELSE \E o \in IosVendorOutcomes,
                 request \in {IosConfigureRequest(calls[i].script, calls[i].options, ios16) :
                               ios16 \in BOOLEAN} :
                calls' = Upd(i, [pc |-> "done", loaded |-> TRUE,
                                 request |-> Some(request),
                                 invoked |-> calls[i].invoked + 1,
                                 vendor |-> [status |-> o.status, results |-> o.results],
                                 settled |-> calls[i].settled \o IosPerformSettles(o)])
  /\ UNCHANGED <<platform, recognizers, constructions, lazyLock, langCalls, destroy>>

\* ------------------------------------------------------------ specification
Next ==
  \/ \E uri \in UriInputs, script \in ScriptInputs : extractTextFromImage(uri, script)
  \/ \E i \in Ids : AndroidLoadImage(i)
  \/ \E i \in Ids : AndroidSelect(i)
  \/ \E i \in Ids : AndroidLazyEnter(i)
  \/ \E i \in Ids : AndroidLazyInit(i)
  \/ \E i \in Ids : AndroidProcess(i)
  \/ \E i \in Ids : AndroidOnSuccess(i)
  \/ \E i \in Ids : AndroidOnFailure(i)
  \/ \E i \in Ids : IosExtractTextFromImage(i)

Spec == Init /\ [][Next]_vars

\* The module's state right after construction on Android.
AndroidInit == Init /\ platform = "android"

\* Concurrent calls of the Android module.
AndroidNext ==
  \/ \E uri \in UriInputs, script \in ScriptInputs : extractTextFromImage(uri, script)
  \/ \E i \in Ids : AndroidLoadImage(i)
  \/ \E i \in Ids : AndroidSelect(i)
  \/ \E i \in Ids : AndroidLazyEnter(i)
  \/ \E i \in Ids : AndroidLazyInit(i)
  \/ \E i \in Ids : AndroidProcess(i)
  \/ \E i \in Ids : AndroidOnSuccess(i)
  \/ \E i \in Ids : AndroidOnFailure(i)

AndroidSpec == AndroidInit /\ [][AndroidNext]_vars

\* One call, its arguments drawn from the wider range.
SingleCallNext ==
  \/ \E uri \in UriDomain, script \in ScriptDomain :
       Len(calls) = 0 /\ extractTextFromImage(uri, script)
  \/ \E i \in Ids : AndroidLoadImage(i)
  \/ \E i \in Ids : AndroidSelect(i)
  \/ \E i \in Ids : AndroidLazyEnter(i)
  \/ \E i \in Ids : AndroidLazyInit(i)
  \/ \E i \in Ids : AndroidProcess(i)
  \/ \E i \in Ids : AndroidOnSuccess(i)
  \/ \E i \in Ids : AndroidOnFailure(i)
  \/ \E i \in Ids : IosExtractTextFromImage(i)

SingleCallSpec == Init /\ [][SingleCallNext]_vars

\* iOS option values of one call.
LanguageOptions == {None, Some(<< >>), Some(<<"ja-JP">>), Some(<<"en-US", "fr-FR">>)}

LevelOptions == {None, Some(L_fast), Some(L_FAST), Some(L_Fast), Some(L_accurate), Some(L_high)}

FlagOptions == {None, Some(TRUE), Some(FALSE)}

WordOptions == {None, Some(<< >>), Some(<<"A">>)}

\* minimumTextHeight, in hundredths of the image height.
HeightOptions == {None, Some(3)}

OptionScripts == {NULL, S_Chinese, S_japanese, S_korean, S_devanagari, S_latin, S_arabic, S_empty}

OptionsDomain ==
  [languages : LanguageOptions, recognitionLevel : LevelOptions,
   automaticallyDetectsLanguage : FlagOptions, usesLanguageCorrection : FlagOptions,
   customWords : WordOptions, minimumTextHeight : HeightOptions]

\* One iOS call on a readable image, its options drawn from the wide range.
OptionsNext ==
  \/ /\ Len(calls) = 0
     /\ \E script \in OptionScripts, options \in OptionsDomain :
          extractTextFromImageWithOptions(U_file_a, script, options)
  \/ \E i \in Ids : IosExtractTextFromImage(i)

IosInit == Init /\ platform = "ios"

OptionsSpec == IosInit /\ [][OptionsNext]_vars

\* Options that differ in languages only.
RoundTripOptions == {[NoOptions EXCEPT !.languages = l] : l \in {None, Some(<< >>), Some(<<"ja-JP">>)}}

\* The round trip is a pair of calls: one call, then another on the same
\* image, in flight together or one after the other.
RoundTripNext ==
  \/ /\ Len(calls) <= 1
     /\ \E script \in ScriptInputs, options \in RoundTripOptions :
          extractTextFromImageWithOptions(U_file_a, script, options)
  \/ \E i \in Ids : IosExtractTextFromImage(i)

RoundTripSpec == IosInit /\ [][RoundTripNext]_vars

\* ----------------------------------------------------- getSupportedLanguages
\* A list with a script named twice.
availableScripts_Duplicated == <<S_latin, S_chinese, S_chinese, S_japanese, S_korean>>

\* private val availableScripts = listOf(..)
availableScripts == <<S_latin, S_chinese, S_devanagari, S_japanese, S_korean>>

\* let fallbackLanguages = [..]
fallbackLanguages ==
  <<"en-US", "fr-FR", "it-IT", "de-DE", "es-ES", "pt-BR", "zh-Hans", "zh-Hant", "ja-JP", "ko-KR">>

\* Script arguments of getSupportedLanguages.
LangScriptArgs == {NULL, S_Chinese, S_korean, S_arabic}

VendorLanguages == {"en-US", "ja-JP", "zh-Hans"}

\* request.supportedRecognitionLanguages() when it returns: Vision answers
\* with a non-empty list of distinct language tags.
SupportedLanguageLists ==
  {l \in Collections(VendorLanguages) :
     l # << >> /\ \A a, b \in 1..Len(l) : l[a] = l[b] => a = b}

LangIds == 1..Len(langCalls)

\* index.ts getSupportedLanguages: dispatch to the native module.
getSupportedLanguages(script) ==
  /\ Len(langCalls) < MaxCalls
  /\ langCalls' = Append(langCalls, [script |-> script, pc |-> "start", queryFailed |-> FALSE,
                                      live |-> << >>, settled |-> << >>])
  /\ UNCHANGED <<platform, calls, recognizers, constructions, lazyLock, destroy>>

\* Kotlin lines 121-123: the script argument is not read.
AndroidGetSupportedLanguages(j) ==
  /\ platform = "android"
  /\ langCalls[j].pc = "start"
  /\ langCalls' = [langCalls EXCEPT ![j].pc = "done",
                                     ![j].settled = Append(@, Resolve(availableScripts))]
  /\ UNCHANGED <<platform, calls, recognizers, constructions, lazyLock, destroy>>

\* A failed query taken to reject the promise.
IosSupportedLanguagesSettle_Rejecting(failed, languages) ==
  IF failed THEN Reject("LANGUAGES_ERROR", "vendor") ELSE Resolve(languages)

\* do { .. promise.resolve(languages) } catch { .. promise.resolve(fallbackLanguages) }
IosSupportedLanguagesSettle(failed, languages) ==
  IF failed THEN Resolve(fallbackLanguages) ELSE Resolve(languages)

\* Swift lines 319-335: the vendor query returns a list or throws.
IosGetSupportedLanguages(j) ==
  /\ platform = "ios"
  /\ langCalls[j].pc = "start"
  /\ \/ \E languages \in SupportedLanguageLists :
          langCalls' = [langCalls EXCEPT ![j].pc = "done", ![j].live = languages,
                                         ![j].settled = Append(@, IosSupportedLanguagesSettle(FALSE, languages))]
     \/ langCalls' = [langCalls EXCEPT ![j].pc = "done", ![j].queryFailed = TRUE,
                                        ![j].settled = Append(@, IosSupportedLanguagesSettle(TRUE, << >>))]
  /\ UNCHANGED <<platform, calls, recognizers, constructions, lazyLock, destroy>>

LanguagesNext ==
  \/ \E script \in LangScriptArgs : getSupportedLanguages(script)
  \/ \E j \in LangIds : AndroidGetSupportedLanguages(j)
  \/ \E j \in LangIds : IosGetSupportedLanguages(j)

LanguagesSpec == Init /\ [][LanguagesNext]_vars

\* Calls and the teardown of the Android module.
LifecycleNext ==
  \/ \E uri \in {U_file_a}, script \in ScriptInputs : extractTextFromImage(uri, script)
  \/ \E i \in Ids : AndroidLoadImage(i)
  \/ \E i \in Ids : AndroidSelect(i)
  \/ \E i \in Ids : AndroidLazyEnter(i)
  \/ \E i \in Ids : AndroidLazyInit(i)
  \/ \E i \in Ids : AndroidProcess(i)
  \/ \E i \in Ids : AndroidOnSuccess(i)
  \/ \E i \in Ids : AndroidOnFailure(i)
  \/ onDestroy
  \/ OnDestroyClose
  \/ OnDestroySuper

LifecycleInit == Init /\ platform = "android"

LifecycleSpec == LifecycleInit /\ [][LifecycleNext]_vars

\* ------------------------------------------------------------------- claims
Rejections(i) == {k \in 1..Len(calls[i].settled) : calls[i].settled[k].kind = "reject"}

Resolutions(i) == {k \in 1..Len(calls[i].settled) : calls[i].settled[k].kind = "resolve"}

\* C1: every extractTextFromImage call settles its promise at most once, on
\* both platforms, also when the vendor engine reports a failure through its
\* completion callback and by throwing.
C1_SettledOnce == \A i \in Ids : Len(calls[i].settled) <= 1

\* The locator the native module receives names no file and no content.
MissingFile(i) ==
  calls[i].uriString \notin ExistingFiles /\ calls[i].uriString \notin ReadableContent

\* Codes the two platforms give to failures of loading the image.
ResourceCodes == {"UNKNOWN_ERROR", "NSCocoaError", "IMAGE_LOAD_ERROR"}

C3_TwoDistinctCategories ==
  /\ \A i \in Ids : \A k \in Rejections(i) :
       LET r == calls[i].settled[k]
       IN  /\ r.code # ""
           /\ r.origin = "vendor" => r.code = "TEXT_RECOGNITION_ERROR"
           /\ r.origin = "resource" => r.code # "TEXT_RECOGNITION_ERROR"
  /\ \A i, j \in Ids : \A k \in Rejections(i), l \in Rejections(j) :
       (calls[i].settled[k].origin = "resource" /\ calls[j].settled[l].origin = "vendor")
         => calls[i].settled[k].code # calls[j].settled[l].code

\* C4: each script's recognizer is constructed at most once, and all calls
\* that selected a script hold the same handle, the one the delegate keeps.
C4_OneConstructionPerScript ==
  /\ \A s \in Scripts : constructions[s] <= 1
  /\ \A i \in Ids : calls[i].handle # 0 => calls[i].handle = recognizers[calls[i].selected]
  /\ \A i, j \in Ids :
       (calls[i].selected = calls[j].selected /\ calls[i].handle # 0 /\ calls[j].handle # 0)
         => calls[i].handle = calls[j].handle

\* Two calls both found the delegate unset, and both hold the one handle.
C4_Witness ==
  \E i, j \in Ids :
    /\ i # j
    /\ calls[i].selected = calls[j].selected
    /\ calls[i].sawUnset /\ calls[j].sawUnset
    /\ calls[i].handle # 0 /\ calls[j].handle = calls[i].handle
    /\ constructions[calls[i].selected] = 1

EqualsIgnoreCase(a, b) ==
  Len(a) = Len(b) /\ \A k \in 1..Len(a) : UpperChar(a[k]) = UpperChar(b[k])

NamedScripts == {S_chinese, S_devanagari, S_japanese, S_korean}

\* C5: the Android selector picks the recognizer of chinese, devanagari,
\* japanese or korean when the script equals that name ignoring case, and
\* the Latin recognizer for every other value, absent or unrecognized; every
\* call whose image loaded gets a selection.
C5_SelectorTotal ==
  \A i \in Ids :
    /\ (calls[i].loaded /\ platform = "android" /\ calls[i].pc # "select")
         => calls[i].selected \in Scripts
    /\ calls[i].selected # NULL =>
         /\ \A s \in NamedScripts :
              (calls[i].script # NULL /\ EqualsIgnoreCase(calls[i].script, s))
                => calls[i].selected = s
         /\ (calls[i].script = NULL
               \/ \A s \in NamedScripts : ~EqualsIgnoreCase(calls[i].script, s))
              => calls[i].selected = S_latin

\* An unrecognized script has been selected for, and got the Latin recognizer.
C5_Witness ==
  \E i \in Ids :
    /\ calls[i].script = Uppercase(S_arabic)
    /\ calls[i].selected = S_latin
    /\ calls[i].handle # 0

\* C6: a call invokes the vendor entry point at most once, and exactly once
\* when its image loaded and the call has ended.
C6_InvokedExactlyOnce ==
  \A i \in Ids :
    /\ calls[i].invoked <= 1
    /\ (calls[i].loaded /\ calls[i].pc \in {"done", "uncaught"}) => calls[i].invoked = 1

\* The text of a block (Android) or of an observation's top candidate (iOS).
TextOf(b) == IF platform = "android" THEN b.text ELSE b.candidates[1].string

HasText(b) == platform = "android" \/ b.candidates # << >>

Kept(r) == {n \in 1..Len(r) : HasText(r[n])}

\* C7 as claimed: the resolved value has the length of the vendor collection
\* and its i-th element is the text of the i-th block or observation.
C7_OneStringPerBlock ==
  \A i \in Ids : \A k \in Resolutions(i) :
    calls[i].vendor.status = "success" =>
      LET v == calls[i].settled[k].value
          r == calls[i].vendor.results
      IN  /\ Len(v) = Len(r)
          /\ \A n \in 1..Len(r) : v[n] = TextOf(r[n])

\* C7 as amended: one string per block on Android and per observation that
\* has a top candidate on iOS, in vendor order; observations without a
\* candidate are skipped.
C7_OneStringPerReadableBlock ==
  \A i \in Ids : \A k \in Resolutions(i) :
    calls[i].vendor.status = "success" =>
      LET v == calls[i].settled[k].value
          r == calls[i].vendor.results
      IN  /\ Len(v) = Cardinality(Kept(r))
          /\ platform = "android" => Len(v) = Len(r)
          /\ \A n \in Kept(r) : v[Cardinality({m \in Kept(r) : m <= n})] = TextOf(r[n])

\* A resolved iOS call whose first observation had no candidate and was
\* skipped, the second one giving the only string.
C7_Witness ==
  \E i \in Ids : \E k \in Resolutions(i) :
    /\ platform = "ios"
    /\ calls[i].vendor.status = "success"
    /\ Len(calls[i].vendor.results) = 2
    /\ calls[i].vendor.results[1].candidates = << >>
    /\ calls[i].settled[k].value = <<"B">>

\* C8: when the vendor engine succeeds with an empty or absent collection the
\* call resolves with the empty sequence and is not rejected, and no call
\* whose vendor engine failed is resolved.
C8_EmptyIsSuccess ==
  \A i \in Ids :
    /\ (calls[i].vendor.status \in {"success", "absent"} /\ calls[i].vendor.results = << >>)
         => /\ Len(calls[i].settled) = 1
            /\ calls[i].settled[1].kind = "resolve"
            /\ calls[i].settled[1].value = << >>
    /\ \A k \in Resolutions(i) :
         /\ calls[i].vendor.status \in {"success", "absent"}
         /\ Rejections(i) = {}

C8_Witness ==
  \E i \in Ids :
    /\ calls[i].vendor.status \in {"success", "absent"}
    /\ calls[i].vendor.results = << >>
    /\ calls[i].invoked = 1
    /\ Resolutions(i) # {}

\* C9: a locator that starts with file:// reaches the native module without
\* that prefix, and any other locator reaches it unchanged.
C9_StripsPrefixOnly ==
  \A i \in Ids :
    IF StartsWith(calls[i].uri, FILE_SCHEME)
      THEN calls[i].uriString = SubSeq(calls[i].uri, Len(FILE_SCHEME) + 1, Len(calls[i].uri))
      ELSE calls[i].uriString = calls[i].uri

\* C10: a call that selected the Chinese recognizer and could not construct
\* it is neither rejected nor ended by an uncaught exception.
C10_ConstructFailureStillResolves ==
  \A i \in Ids :
    (calls[i].selected = S_chinese /\ calls[i].constructFailed)
      => /\ calls[i].pc # "uncaught"
         /\ Rejections(i) = {}

\* C11: a recognizer is constructed only once a request has selected its
\* script, never otherwise (onDestroy included), and every call holds the
\* handle the delegate keeps.
C11_ConstructedOnlyWhenRequested ==
  /\ \A s \in Scripts :
       (recognizers[s] # 0 \/ constructions[s] > 0)
         => \E i \in Ids : calls[i].selected = s
  /\ \A i \in Ids : calls[i].handle # 0 => calls[i].handle = recognizers[calls[i].selected]

\* C12: when onDestroy has returned it has not thrown, super.onDestroy() was
\* reached and every constructed recognizer was closed; no recognizer is
\* closed twice.
C12_TeardownReleasesAll ==
  /\ \A s \in Scripts : destroy.closes[s] <= 1
  /\ destroy.step = "returned" =>
       /\ ~destroy.thrown
       /\ destroy.superCalled
       /\ \A s \in Scripts : recognizers[s] # 0 => destroy.closes[s] = 1

NoDuplicates(l) == \A a, b \in 1..Len(l) : l[a] = l[b] => a = b

C14_LanguagesAlwaysResolve ==
  /\ \A j \in LangIds :
       /\ \A k \in 1..Len(langCalls[j].settled) : langCalls[j].settled[k].kind = "resolve"
       /\ langCalls[j].pc = "done" => Len(langCalls[j].settled) = 1
       /\ (langCalls[j].pc = "done" /\ langCalls[j].queryFailed) =>
            langCalls[j].settled[1].value = fallbackLanguages
  /\ platform = "android" =>
       \A j, k \in LangIds :
         (langCalls[j].pc = "done" /\ langCalls[k].pc = "done")
           => langCalls[j].settled[1].value = langCalls[k].settled[1].value

\* An iOS call whose vendor query failed has resolved.
C14_Witness ==
  \E j \in LangIds :
    /\ platform = "ios"
    /\ langCalls[j].queryFailed
    /\ langCalls[j].pc = "done"
    /\ langCalls[j].settled # << >>
    /\ langCalls[j].settled[1].kind = "resolve"

\* The request of call i that reached the vendor.
RequestOf(i) == calls[i].request[1]

\* Calls i and j agree in everything but the languages option.
SameButLanguages(i, j) ==
  /\ calls[i].uri = calls[j].uri
  /\ calls[i].script = calls[j].script
  /\ [calls[i].options EXCEPT !.languages = None] = [calls[j].options EXCEPT !.languages = None]

\* C15: on iOS a call with languages = [] reaches the vendor (no rejection
\* that does not come from the vendor), takes no language list from the
\* option - the script's languages if a script is given, else nothing is
\* assigned - and its request is the one of a call without languages,
\* whatever the other call passed.
C15_EmptyLanguagesAsAbsent ==
  \A i \in Ids :
    (platform = "ios" /\ calls[i].pc = "done" /\ calls[i].options.languages = Some(<< >>)) =>
      /\ calls[i].request # None
      /\ \A k \in 1..Len(calls[i].settled) :
           calls[i].settled[k].kind = "reject" => calls[i].settled[k].origin = "vendor"
      /\ RequestOf(i).recognitionLanguages =
           (IF calls[i].script = NULL THEN None ELSE Some(languagesForScript(calls[i].script)))
      /\ \A j \in Ids :
           (calls[j].request # None /\ calls[j].options.languages = None /\ SameButLanguages(i, j))
             => \E ios16 \in BOOLEAN :
                  /\ RequestOf(j) = IosConfigureRequest(calls[j].script, calls[j].options, ios16)
                  /\ RequestOf(i) = RequestOf(j)

\* languages: ['ja-JP'] with a script, then languages: [] with the same
\* script: the second call fell back to the script's languages.
C15_Witness ==
  /\ platform = "ios"
  /\ Len(calls) = 2
  /\ calls[1].options.languages = Some(<<"ja-JP">>)
  /\ calls[2].options.languages = Some(<< >>)
  /\ calls[1].script = S_Chinese
  /\ calls[2].script = S_Chinese
  /\ calls[1].pc = "done"
  /\ calls[2].pc = "done"
  /\ RequestOf(1).recognitionLanguages = Some(<<"ja-JP">>)
  /\ RequestOf(2).recognitionLanguages = Some(<<"zh-Hans", "zh-Hant">>)
  /\ \E k \in 1..Len(calls[2].settled) : calls[2].settled[k].kind = "resolve"

\* The texts the vendor handed to call i, as the platform extracts them.
OwnTexts(call) ==
  IF platform = "android" THEN AndroidRecognizedTexts(call.vendor.results)
                          ELSE IosRecognizedTexts(call.vendor.results)

\* C16: concurrent calls are independent: a step changes the record of at
\* most one call, never that of a finished call; what it adds to a call's
\* promise is a resolve with the texts of that call's own vendor result or a
\* rejection of that call; the vendor is invoked for a call on its own
\* loaded image with the recognizer selected for it.
C16_CallsIndependent ==
  [][/\ \A i \in Ids : calls'[i] # calls[i] => \A j \in Ids \ {i} : calls'[j] = calls[j]
     /\ \A j \in Ids : calls[j].pc = "done" => calls'[j] = calls[j]
     /\ \A i \in Ids :
          /\ Len(calls'[i].settled) >= Len(calls[i].settled)
          /\ SubSeq(calls'[i].settled, 1, Len(calls[i].settled)) = calls[i].settled
          /\ \A k \in (Len(calls[i].settled) + 1)..Len(calls'[i].settled) :
               calls'[i].settled[k].kind = "resolve" =>
                 /\ calls'[i].vendor.status # "failure"
                 /\ calls'[i].settled[k].value = OwnTexts(calls'[i])
          /\ calls'[i].invoked > calls[i].invoked =>
               /\ calls'[i].loaded
               /\ platform = "android" =>
                    /\ calls[i].handle # 0
                    /\ calls[i].handle = recognizers[calls[i].selected]
                    /\ calls[i].selected = getRecognizerForScript(calls[i].script)]_vars

\* The later call was rejected by its vendor failure while the earlier call
\* is still waiting for its own result.
C16_Witness ==
  /\ platform = "android"
  /\ Len(calls) = 2
  /\ calls[1].pc = "awaiting"
  /\ calls[1].settled = << >>
  /\ calls[2].pc = "done"
  /\ calls[2].settled = <<Reject("TEXT_RECOGNITION_ERROR", "vendor")>>

\* Call i has no step left to take.
Terminal(i) ==
  calls[i].pc \notin {"start", "select", "lazy_wait", "lazy_locked", "process", "awaiting"}

\* C17: no path leaves the promise pending: a call that has no step left -
\* after an image load failure, a recognizer selection failure, a vendor
\* success or a vendor failure - has been resolved or rejected.
C17_NoCallLeftPending ==
  \A i \in Ids : Terminal(i) => calls[i].settled # << >>

\* C18: a request never changes its locator, script or options, and the
\* only module state it changes is the handle of the script selected for it,
\* from unconstructed to constructed; the handles of all other scripts stay.
C18_RequestFrame ==
  [][/\ \A i \in Ids : /\ calls'[i].uri = calls[i].uri
                        /\ calls'[i].script = calls[i].script
                        /\ calls'[i].options = calls[i].options
     /\ \A s \in Scripts :
          recognizers'[s] # recognizers[s] =>
            /\ recognizers[s] = 0
            /\ recognizers'[s] # 0
            /\ \E i \in Ids : /\ calls'[i] # calls[i]
                               /\ calls[i].selected = s
                               /\ getRecognizerForScript(calls[i].script) = s
                               /\ calls'[i].handle = recognizers'[s]
            /\ \A t \in Scripts \ {s} : recognizers'[t] = recognizers[t]]_vars

\* A request for Chinese built the Chinese recognizer and left the others
\* unconstructed.
C18_Witness ==
  /\ recognizers[S_chinese] # 0
  /\ \A t \in Scripts \ {S_chinese} : recognizers[t] = 0
  /\ \E i \in Ids : /\ calls[i].script = S_Chinese
                     /\ calls[i].handle = recognizers[S_chinese]
                     /\ calls[i].options = NoOptions

\* The languages a script stands for, case ignored.
ScriptLanguages(script) ==
  IF EqualsIgnoreCase(script, S_chinese) THEN <<"zh-Hans", "zh-Hant">>
  ELSE IF EqualsIgnoreCase(script, S_japanese) THEN <<"ja-JP">>
  ELSE IF EqualsIgnoreCase(script, S_korean) THEN <<"ko-KR">>
  ELSE IF EqualsIgnoreCase(script, S_devanagari) THEN <<"hi-IN">>
  ELSE IF EqualsIgnoreCase(script, S_latin)
    THEN <<"en-US", "fr-FR", "de-DE", "es-ES", "it-IT", "pt-BR">>
  ELSE << >>

\* C19: on iOS a non-empty languages option is assigned verbatim and the
\* script ignored; otherwise a given script assigns the languages it stands
\* for (none for an unknown script); with neither, recognitionLanguages is
\* not assigned.
C19_LanguagePrecedence ==
  \A i \in Ids :
    (platform = "ios" /\ calls[i].request # None) =>
      LET languages == calls[i].options.languages
          assigned == RequestOf(i).recognitionLanguages
      IN  IF languages # None /\ Len(languages[1]) > 0
            THEN assigned = Some(languages[1])
            ELSE IF calls[i].script # NULL
              THEN assigned = Some(ScriptLanguages(calls[i].script))
              ELSE assigned = None

\* A call with languages ['ja-JP'] and script 'Chinese' got ja-JP alone.
C19_Witness ==
  \E i \in Ids :
    /\ platform = "ios"
    /\ calls[i].script = S_Chinese
    /\ calls[i].options.languages = Some(<<"ja-JP">>)
    /\ calls[i].request # None
    /\ RequestOf(i).recognitionLanguages = Some(<<"ja-JP">>)

\* C20: on iOS recognitionLevel is fast exactly when the option equals
\* 'fast' ignoring case and accurate otherwise; usesLanguageCorrection is
\* the option, true when absent; customWords is assigned only when given
\* and not empty; minimumTextHeight and automaticallyDetectsLanguage are
\* assigned only when given, with the given value.
C20_OptionDefaults ==
  \A i \in Ids :
    (platform = "ios" /\ calls[i].request # None) =>
      LET o == calls[i].options
          r == RequestOf(i)
      IN  /\ r.recognitionLevel \in {"fast", "accurate"}
          /\ r.recognitionLevel = "fast" <=>
               (o.recognitionLevel # None /\ EqualsIgnoreCase(o.recognitionLevel[1], L_fast))
          /\ r.usesLanguageCorrection =
               (IF o.usesLanguageCorrection = None THEN TRUE ELSE o.usesLanguageCorrection[1])
          /\ r.customWords =
               (IF o.customWords = None \/ o.customWords = Some(<< >>) THEN None ELSE o.customWords)
          /\ r.minimumTextHeight = o.minimumTextHeight
          /\ r.automaticallyDetectsLanguage \in {None, o.automaticallyDetectsLanguage}

\* A call that gave only recognitionLevel 'FAST' and an empty customWords.
C20_Witness ==
  \E i \in Ids :
    /\ platform = "ios"
    /\ calls[i].request # None
    /\ calls[i].options = [NoOptions EXCEPT !.recognitionLevel = Some(L_FAST),
                                             !.customWords = Some(<< >>)]
    /\ RequestOf(i).recognitionLevel = "fast"
    /\ RequestOf(i).customWords = None
    /\ RequestOf(i).usesLanguageCorrection = TRUE
    /\ RequestOf(i).minimumTextHeight = None
    /\ RequestOf(i).automaticallyDetectsLanguage = None

====
